---- MODULE Spec2Model ----
(***************************************************************************)
(* Model of the credential-rotation and generation engine of the           *)
(* zenith-image-generator web client:                                      *)
(*   - the flow node (components/flow/ImageNode.tsx): generation effect,   *)
(*     single-flight guard, generateImageWithRotation, generateImageApi-   *)
(*     Single;                                                             *)
(*   - the home page hook (useImageGenerator.handleGenerate) with its      *)
(*     chained upscale;                                                    *)
(*   - the history ledger (historyStore in lib/api.ts).                    *)
(* The token pool (lib/tokenRotation) and the flow store (stores/flowStore)*)
(* are not part of the sources at hand; they are modelled from the         *)
(* specification's sections 4.1, 4.2 and 4.4.                              *)
(***************************************************************************)
EXTENDS Integers, Sequences, FiniteSets, TLC

\* ------------------------------------------------------------------ bounds
\* Longest credential list a run is given.
MaxTokens == 11
\* Secrets 1..MaxPreExhausted may have been marked exhausted by earlier runs.
MaxPreExhausted == 2
\* Number of times the generation effect of one node is triggered.
MaxEffects == 3
\* Longest credential list in the specifications that interleave components.
MaxTokensSmall == 2
\* Number of times handleGenerate is invoked.
MaxHomeRuns == 2
\* Number of saveToHistory calls made by the tabs together.
MaxTabAppends == 3
\* Number of clock advances and of ledger appends in the ledger specification.
MaxTicks == 3
MaxAppends == 3

\* ------------------------------------------------------- program constants
MAX_RETRY_ATTEMPTS == 10
HISTORY_TTL_MS == 24 * 60 * 60 * 1000
MAX_ITEMS == 200
\* token: string | null -- the null token of an anonymous call
NoToken == 0

Providers == {"huggingface", "gitee"}
Units == {1, 2}

VARIABLES
  route,          \* the page App.tsx has mounted: "/" or "/flow"
  now,            \* Date.now()
  storage,        \* localStorage[HISTORY_STORAGE_KEY]
  nextId,         \* source of generateId()
  exhausted,      \* token pool: provider -> secrets marked exhausted
  hasHydrated,    \* flowStore._hasHydrated
  nodeData,       \* flowStore data of each node: isLoading, imageUrl, error
  generatingRef,  \* generatingRef.current of each node
  pc,             \* where each node's async run is suspended
  provider,       \* settings.provider read by the run
  allTokens,      \* loadTokensArray(provider)
  requiresAuth,   \* PROVIDER_CONFIGS[provider].requiresAuth
  attempts,       \* the loop counter of generateImageWithRotation
  token,          \* the token of the call in flight (NoToken: anonymous)
  calls,          \* history: per run, the calls made so far (token, class)
  lastResult,     \* history: what the last answered call returned or threw
  exh0,           \* history: the provider's exhausted set when the run began
  triggers,       \* history: how often the node's generation effect ran
  blocked,        \* history: effect runs stopped by the generatingRef check
  runsStarted,    \* history: how many async runs the effect started
  terminals,      \* history: updateImageGenerated/updateImageError invocations
  home,           \* state of the home page hook (useImageGenerator)
  ledger,         \* history: last ledger operation and what it returned
  tabs            \* per browser tab: its saveToHistory call in progress

vars == <<route, now, storage, nextId, exhausted, hasHydrated, nodeData,
          generatingRef, pc, provider, allTokens, requiresAuth, attempts,
          token, calls, lastResult, exh0, triggers, blocked, runsStarted,
          terminals, home, ledger, tabs>>

nodeVars == <<hasHydrated, nodeData, generatingRef, pc, provider, allTokens,
              requiresAuth, attempts, token, calls, lastResult, exh0,
              triggers, blocked, runsStarted, terminals>>


\* ------------------------------------------------------------ upstream
\* What the transport can answer to POST /api/generate: an HTTP status and a
\* body. body: "details" (JSON with imageDetails, http url), "dataurl" (JSON
\* with imageDetails whose url is a data: URL), "nodetails" (JSON without
\* imageDetails), "error" (JSON error object), "noerror" (JSON object with no
\* error field), "empty" (no text), "nonjson" (text that is not JSON).
Resp(st, b, c, e) == [status |-> st, body |-> b, code |-> c, error |-> e]

Responses ==
  { Resp(200, "details", "", ""),
    Resp(200, "dataurl", "", ""),
    Resp(200, "nodetails", "", ""),
    Resp(200, "empty", "", ""),
    Resp(502, "nonjson", "", ""),
    Resp(429, "error", "QUOTA_EXCEEDED", "quota exceeded"),
    Resp(429, "noerror", "", ""),
    Resp(429, "empty", "", ""),
    Resp(401, "error", "AUTH_INVALID", "invalid token"),
    Resp(500, "error", "PROVIDER_ERROR", "provider failed"),
    Resp(400, "error", "INVALID_PROMPT", "invalid prompt") }

\* The answers that decide a run: an image, a quota error, another error.
MainResponses ==
  { Resp(200, "details", "", ""),
    Resp(429, "error", "QUOTA_EXCEEDED", "quota exceeded"),
    Resp(500, "error", "PROVIDER_ERROR", "provider failed") }

UrlOf(r) == IF r.body = "details" THEN "http://image" ELSE "data:image"

\* A thrown Error: its message and its status property (0: none set).
Err(m, st) == [ok |-> FALSE, url |-> "", message |-> m, status |-> st]
Ok(u) == [ok |-> TRUE, url |-> u, message |-> "", status |-> 0]

\* generateImageApiSingle, from the response on: what it returns or throws.
generateImageApiSingle(r) ==
  IF r.body = "empty" THEN Err("Empty response from server", 0)
  ELSE IF r.body = "nonjson" THEN Err("Invalid response", 0)
  ELSE IF r.status # 200
    THEN Err(IF r.body = "error" THEN r.error ELSE "Failed to generate", r.status)
  ELSE IF r.body \notin {"details", "dataurl"}
    THEN Err("No image details returned", 0)
  ELSE Ok(UrlOf(r))

\* ------------------------------------------------- ErrorClassifier (4.2)
Classify(err) ==
  IF err.status = 429 THEN "quota"
  ELSE IF err.status = 401 THEN "auth"
  ELSE IF err.status = 0 \/ err.status >= 500 THEN "transient"
  ELSE "fatal"

isQuotaError(err) == Classify(err) = "quota"

\* ------------------------------------------------------ TokenPool (4.1)
\* The first secret of allTokens, in the given order, that pool does not
\* mark exhausted for provider p; NoToken when there is none.
getNextAvailableToken(pool, p, toks) ==
  LET avail == SelectSeq(toks, LAMBDA t : t \notin pool[p])
  IN IF avail = <<>> THEN NoToken ELSE Head(avail)

markTokenExhausted(pool, p, t) == [pool EXCEPT ![p] = @ \cup {t}]

\* ------------------------------------------------------- history ledger
\* localStorage holds a string; Stringify is JSON.stringify of an item array.
\* Other values a read can find: "null" (key absent), "corrupt" (not JSON),
\* "nonarray" (JSON that is no array).
Stringify(items) == [kind |-> "array", items |-> items]
NoValue == [kind |-> "null", items |-> <<>>]

\* Variant: whatever is stored is read as if it were an array.
safeParseArrayLenient(value) ==
  IF value.kind = "null" THEN <<>>
  ELSE SelectSeq(value.items, LAMBDA x : x.obj)

safeParseArray(value) ==
  IF value.kind = "null" THEN <<>>
  ELSE IF value.kind # "array" THEN <<>>
  ELSE SelectSeq(value.items, LAMBDA x : x.obj)

Unexpired(i, t) == ~i.hasExp \/ i.expiresAt > t

\* getHistory at time t: the value it returns ...
getHistory(value, t) ==
  SelectSeq(safeParseArray(value), LAMBDA i : Unexpired(i, t))

\* Variant: the sweep is not written back.
getHistoryStoredNoWrite(value, t) == value

\* ... and the value it leaves in storage (writeHistory only on a sweep).
getHistoryStored(value, t) ==
  IF Len(getHistory(value, t)) # Len(safeParseArray(value))
  THEN Stringify(getHistory(value, t))
  ELSE value

getAllHistoryIncludingExpired(value) == safeParseArray(value)

\* Variant: the expiry is counted from the millisecond after the timestamp.
NewEntryLateExpiry(id, t, url, source) ==
  [obj |-> TRUE, hasExp |-> TRUE, id |-> id, timestamp |-> t,
   expiresAt |-> t + 1 + HISTORY_TTL_MS, url |-> url, source |-> source]

NewEntry(id, t, url, source) ==
  [obj |-> TRUE, hasExp |-> TRUE, id |-> id, timestamp |-> t,
   expiresAt |-> t + HISTORY_TTL_MS, url |-> url, source |-> source]

\* Variant: the slice keeps the last n elements.
SliceLast(s, n) == SubSeq(s, IF Len(s) < n THEN 1 ELSE Len(s) - n + 1, Len(s))

Slice(s, n) == SubSeq(s, 1, IF Len(s) < n THEN Len(s) ELSE n)

\* Variant: the new entry is put after the older ones.
saveToHistoryAtEnd(value, t, id, url, source) ==
  LET prev == getHistory(getHistoryStored(value, t), t)
      next == Slice(prev \o <<NewEntry(id, t, url, source)>>, MAX_ITEMS)
  IN Stringify(next)

\* saveToHistory at time t with generated id: the value left in storage.
saveToHistory(value, t, id, url, source) ==
  LET prev == getHistory(getHistoryStored(value, t), t)
      next == Slice(<<NewEntry(id, t, url, source)>> \o prev, MAX_ITEMS)
  IN Stringify(next)

\* How localStorage behaves during one operation: it works, setItem raises
\* (quota exceeded), or getItem raises (access to the storage is denied).
StorageFaults == {"none", "write", "read"}
StorageErrorMsg == "The operation is insecure."

\* saveToHistory over a storage that may raise: getItem is called outside any
\* try block (line 387), setItem inside one (lines 371-375).
saveToHistoryIO(value, t, id, url, source, fault) ==
  IF fault = "read" THEN [raised |-> TRUE, value |-> value]
  ELSE IF fault = "write" THEN [raised |-> FALSE, value |-> value]
  ELSE [raised |-> FALSE, value |-> saveToHistory(value, t, id, url, source)]

\* Variant: the entries stored before the deleted one go with it.
deleteHistoryItemAndOlder(value, id) ==
  Stringify(SelectSeq(getAllHistoryIncludingExpired(value), LAMBDA i : i.id > id))

deleteHistoryItem(value, id) ==
  Stringify(SelectSeq(getAllHistoryIncludingExpired(value), LAMBDA i : i.id # id))

clearExpiredHistory(value, t) ==
  Stringify(SelectSeq(getAllHistoryIncludingExpired(value),
                      LAMBDA i : Unexpired(i, t)))


\* ------------------------------------------------------------ flow store
\* The node data the flow store keeps, and its two terminal updates (4.4).
FreshNode == [isLoading |-> TRUE, imageUrl |-> "", error |-> ""]
RestoredNode == [isLoading |-> FALSE, imageUrl |-> "http://image", error |-> ""]
AbsentNode == [isLoading |-> FALSE, imageUrl |-> "", error |-> ""]

updateImageGenerated(data, u, url) ==
  [data EXCEPT ![u] = [isLoading |-> FALSE, imageUrl |-> url, error |-> ""]]

updateImageError(data, u, msg) ==
  [data EXCEPT ![u] = [isLoading |-> FALSE, imageUrl |-> @.imageUrl, error |-> msg]]

\* ------------------------------------------- generateImageWithRotation
Call(t) == [act |-> "call", token |-> t, msg |-> ""]
Throw(m) == [act |-> "throw", token |-> NoToken, msg |-> m]

\* Variant: the loop condition admits one attempt too many.
RotationStepOffByOne(pool, p, toks, ra, att) ==
  IF ~(att <= MAX_RETRY_ATTEMPTS) THEN Throw("Maximum retry attempts reached")
  ELSE LET t == getNextAvailableToken(pool, p, toks)
       IN IF t = NoToken
          THEN IF ~ra THEN Call(NoToken)
               ELSE Throw("All API tokens exhausted. Quota will reset tomorrow.")
          ELSE Call(t)

\* Variant: every pass takes the first secret of the list.
RotationStepFirstOfList(pool, p, toks, ra, att) ==
  IF ~(att < MAX_RETRY_ATTEMPTS) THEN Throw("Maximum retry attempts reached")
  ELSE Call(Head(toks))

\* Variant: the attempts are not counted.
RotationStepUnbounded(pool, p, toks, ra, att) ==
  LET t == getNextAvailableToken(pool, p, toks)
  IN IF t = NoToken
     THEN IF ~ra THEN Call(NoToken)
          ELSE Throw("All API tokens exhausted. Quota will reset tomorrow.")
     ELSE Call(t)

\* Variant: with no secret left the run fails whatever requiresAuth.
RotationStepNoAnon(pool, p, toks, ra, att) ==
  IF ~(att < MAX_RETRY_ATTEMPTS) THEN Throw("Maximum retry attempts reached")
  ELSE LET t == getNextAvailableToken(pool, p, toks)
       IN IF t = NoToken
          THEN Throw("All API tokens exhausted. Quota will reset tomorrow.")
          ELSE Call(t)

\* Variant: with no secret left the anonymous call is made whatever requiresAuth.
RotationStepAnonAlways(pool, p, toks, ra, att) ==
  IF ~(att < MAX_RETRY_ATTEMPTS) THEN Throw("Maximum retry attempts reached")
  ELSE LET t == getNextAvailableToken(pool, p, toks)
       IN IF t = NoToken THEN Call(NoToken) ELSE Call(t)

\* One pass through the head of the while loop: which call is made next, or
\* which error is thrown.
RotationStep(pool, p, toks, ra, att) ==
  IF ~(att < MAX_RETRY_ATTEMPTS) THEN Throw("Maximum retry attempts reached")
  ELSE LET t == getNextAvailableToken(pool, p, toks)
       IN IF t = NoToken
          THEN IF ~ra THEN Call(NoToken)
               ELSE Throw("All API tokens exhausted. Quota will reset tomorrow.")
          ELSE Call(t)

\* Variant: the first call is made with the first secret of the list.
RotationEntryFirstOfList(pool, p, toks, ra) ==
  IF Len(toks) = 0
  THEN IF ra THEN Throw("No API Token") ELSE Call(NoToken)
  ELSE Call(Head(toks))

\* Variant: the empty list is not checked against requiresAuth.
RotationEntryNoAuthCheck(pool, p, toks, ra) ==
  IF Len(toks) = 0
  THEN Call(NoToken)
  ELSE RotationStep(pool, p, toks, ra, 0)

\* Entry of generateImageWithRotation: the empty-list case, else the loop.
RotationEntry(pool, p, toks, ra) ==
  IF Len(toks) = 0
  THEN IF ra THEN Throw("No API Token") ELSE Call(NoToken)
  ELSE RotationStep(pool, p, toks, ra, 0)

\* Variant: the anonymous calls are made inside the try block too.
InTryAlways(t) == TRUE

\* The calls the try block of the loop wraps: those made with a secret. The
\* anonymous calls are returned directly, outside it.
InTry(t) == t # NoToken

\* Variant: a quota failure is retried without marking the secret.
RotationCatchNoMark(pool, p, t, att, err) ==
  IF isQuotaError(err)
  THEN [retry |-> TRUE, pool |-> pool, attempts |-> att + 1]
  ELSE [retry |-> FALSE, pool |-> pool, attempts |-> att]

\* Variant: the secret is marked whatever the error is.
RotationCatchMarkThenThrow(pool, p, t, att, err) ==
  IF isQuotaError(err)
  THEN [retry |-> TRUE, pool |-> markTokenExhausted(pool, p, t), attempts |-> att + 1]
  ELSE [retry |-> FALSE, pool |-> markTokenExhausted(pool, p, t), attempts |-> att]

\* Variant: the mark takes the following secret with it.
RotationCatchMarkTwo(pool, p, t, att, err) ==
  IF isQuotaError(err)
  THEN [retry |-> TRUE, pool |-> [pool EXCEPT ![p] = @ \cup {t, t + 1}],
        attempts |-> att + 1]
  ELSE [retry |-> FALSE, pool |-> pool, attempts |-> att]

\* Variant: the mark replaces the provider's exhausted set.
RotationCatchReplace(pool, p, t, att, err) ==
  IF isQuotaError(err)
  THEN [retry |-> TRUE, pool |-> [pool EXCEPT ![p] = {t}], attempts |-> att + 1]
  ELSE [retry |-> FALSE, pool |-> pool, attempts |-> att]

\* Variant: the mark is made in the pool of every provider.
RotationCatchMarkAllProviders(pool, p, t, att, err) ==
  IF isQuotaError(err)
  THEN [retry |-> TRUE, pool |-> [q \in Providers |-> pool[q] \cup {t}],
        attempts |-> att + 1]
  ELSE [retry |-> FALSE, pool |-> pool, attempts |-> att]

\* Variant: every error marks the secret and moves to the next one.
RotationCatchMarkAny(pool, p, t, att, err) ==
  [retry |-> TRUE, pool |-> markTokenExhausted(pool, p, t), attempts |-> att + 1]

\* The catch block of the loop, for the error err of the call made with t.
RotationCatch(pool, p, t, att, err) ==
  IF isQuotaError(err)
  THEN [retry |-> TRUE, pool |-> markTokenExhausted(pool, p, t), attempts |-> att + 1]
  ELSE [retry |-> FALSE, pool |-> pool, attempts |-> att]

\* ------------------------------------------------------------ flow node
\* The credential lists loadTokensArray can return: up to n distinct secrets,
\* in ascending or in descending order.
TokenLists(n) ==
  {[i \in 1..k |-> i] : k \in 0..n} \cup {[i \in 1..k |-> k + 1 - i] : k \in 2..n}

\* Variant: the effect does not consult generatingRef.
EffectGuardNoRef(u) ==
  /\ hasHydrated
  /\ ~(nodeData[u].imageUrl # "" \/ ~nodeData[u].isLoading)

\* Variant: the effect does not wait for the store's hydration.
EffectGuardNoHydration(u) ==
  /\ ~(nodeData[u].imageUrl # "" \/ ~nodeData[u].isLoading)
  /\ ~generatingRef[u]

\* The conditions under which the generation effect starts a run.
EffectGuard(u) ==
  /\ hasHydrated
  /\ ~(nodeData[u].imageUrl # "" \/ ~nodeData[u].isLoading)
  /\ ~generatingRef[u]

\* The store finishes loading its persisted state.
Hydrate ==
  /\ route = "/flow"
  /\ ~hasHydrated
  /\ hasHydrated' = TRUE
  /\ UNCHANGED <<route, tabs, now, storage, nextId, exhausted, nodeData, generatingRef,
                 pc, provider, allTokens, requiresAuth, attempts, token, calls,
                 lastResult, exh0, triggers, blocked, runsStarted, terminals,
                 home, ledger>>

\* The generation effect of node u runs (mount, or a dependency changed).
EffectUpTo(u, n) ==
  /\ route = "/flow"
  /\ triggers[u] < n
  /\ triggers' = [triggers EXCEPT ![u] = @ + 1]
  /\ IF EffectGuard(u)
     THEN /\ generatingRef' = [generatingRef EXCEPT ![u] = TRUE]
          /\ pc' = [pc EXCEPT ![u] = "load"]
          /\ runsStarted' = [runsStarted EXCEPT ![u] = @ + 1]
          /\ UNCHANGED blocked
     ELSE /\ blocked' = [blocked EXCEPT ![u] =
                           IF hasHydrated /\ nodeData[u].imageUrl = ""
                              /\ nodeData[u].isLoading
                           THEN @ + 1 ELSE @]
          /\ UNCHANGED <<generatingRef, pc, runsStarted>>
  /\ UNCHANGED <<route, tabs, now, storage, nextId, exhausted, hasHydrated, nodeData,
                 provider, allTokens, requiresAuth, attempts, token, calls,
                 lastResult, exh0, terminals, home, ledger>>

Effect(u) == EffectUpTo(u, MaxEffects)

\* Variant: an error thrown by the run is not caught.
ContinueNoCatch(u, d, cs) ==
  IF d.act = "call"
  THEN /\ pc' = [pc EXCEPT ![u] = "call"]
       /\ token' = [token EXCEPT ![u] = d.token]
       /\ calls' = [calls EXCEPT ![u] = Append(cs, [token |-> d.token, class |-> "pending"])]
       /\ UNCHANGED <<nodeData, terminals>>
  ELSE /\ pc' = [pc EXCEPT ![u] = "done"]
       /\ token' = [token EXCEPT ![u] = NoToken]
       /\ calls' = [calls EXCEPT ![u] = cs]
       /\ UNCHANGED <<nodeData, terminals>>

\* Control of node u's run reaches decision d with the calls log cs: either
\* the next call is sent, or the error is caught and stored on the node.
Continue(u, d, cs) ==
  IF d.act = "call"
  THEN /\ pc' = [pc EXCEPT ![u] = "call"]
       /\ token' = [token EXCEPT ![u] = d.token]
       /\ calls' = [calls EXCEPT ![u] = Append(cs, [token |-> d.token, class |-> "pending"])]
       /\ UNCHANGED <<nodeData, terminals>>
  ELSE /\ pc' = [pc EXCEPT ![u] = "done"]
       /\ token' = [token EXCEPT ![u] = NoToken]
       /\ calls' = [calls EXCEPT ![u] = cs]
       /\ nodeData' = updateImageError(nodeData, u, d.msg)
       /\ terminals' = [terminals EXCEPT ![u] = Append(@, "error")]

\* loadTokensArray resolves: the run reads its provider's configuration and
\* enters generateImageWithRotation up to its first call or throw.
Loaded(u, provs, n) ==
  /\ pc[u] = "load"
  /\ \E p \in provs, toks \in TokenLists(n), ra \in BOOLEAN :
       /\ provider' = [provider EXCEPT ![u] = p]
       /\ allTokens' = [allTokens EXCEPT ![u] = toks]
       /\ requiresAuth' = [requiresAuth EXCEPT ![u] = ra]
       /\ attempts' = [attempts EXCEPT ![u] = 0]
       /\ exh0' = [exh0 EXCEPT ![u] = exhausted[p]]
       /\ Continue(u, RotationEntry(exhausted, p, toks, ra), <<>>)
  /\ UNCHANGED <<route, tabs, now, storage, nextId, exhausted, hasHydrated,
                 generatingRef, lastResult, triggers, blocked, runsStarted,
                 home, ledger>>

\* The call in flight of node u is answered with r; the storage behaves as
\* fault says when the entry is saved.
ResponseIO(u, r, fault) ==
  /\ pc[u] = "call"
  /\ LET res == generateImageApiSingle(r)
         n == Len(calls[u])
         cls == IF res.ok THEN "ok" ELSE Classify(res)
         cs == [calls[u] EXCEPT ![n] = [token |-> token[u], class |-> cls]]
     IN /\ lastResult' = [lastResult EXCEPT ![u] = res]
        /\ IF res.ok
           THEN \* lines 184-201: saveToHistory, then updateImageGenerated;
                \* an exception of saveToHistory is caught at line 202
                LET sv == saveToHistoryIO(storage, now, nextId, res.url, "flow", fault)
                IN
                /\ storage' = sv.value
                /\ nextId' = nextId + 1
                /\ nodeData' = IF sv.raised
                               THEN updateImageError(nodeData, u, StorageErrorMsg)
                               ELSE updateImageGenerated(nodeData, u, res.url)
                /\ terminals' = [terminals EXCEPT ![u] =
                                   Append(@, IF sv.raised THEN "error" ELSE "generated")]
                /\ pc' = [pc EXCEPT ![u] = "done"]
                /\ token' = [token EXCEPT ![u] = NoToken]
                /\ calls' = [calls EXCEPT ![u] = cs]
                /\ UNCHANGED <<exhausted, attempts>>
           ELSE IF ~InTry(token[u])
           THEN \* the anonymous call is returned outside the try block
                /\ Continue(u, Throw(res.message), cs)
                /\ UNCHANGED <<storage, nextId, exhausted, attempts>>
           ELSE LET c == RotationCatch(exhausted, provider[u], token[u], attempts[u], res)
                IN /\ exhausted' = c.pool
                   /\ attempts' = [attempts EXCEPT ![u] = c.attempts]
                   /\ IF c.retry
                      THEN Continue(u, RotationStep(c.pool, provider[u], allTokens[u],
                                                    requiresAuth[u], c.attempts), cs)
                      ELSE Continue(u, Throw(res.message), cs)
                   /\ UNCHANGED <<storage, nextId>>
  /\ UNCHANGED <<route, tabs, now, hasHydrated, generatingRef, provider, allTokens,
                 requiresAuth, exh0, triggers, blocked, runsStarted, home, ledger>>

\* The call in flight of node u is answered with r; the storage works.
Response(u, r) == ResponseIO(u, r, "none")

\* Another run of provider p (another node, another page) marks secret t
\* exhausted before node runs of this page begin.
MarkedElsewhere(p, t) ==
  /\ route = "/flow"
  /\ \A u \in Units : pc[u] = "idle"
  /\ t \notin exhausted[p]
  /\ exhausted' = markTokenExhausted(exhausted, p, t)
  /\ UNCHANGED <<route, tabs, now, storage, nextId, hasHydrated, nodeData, generatingRef,
                 pc, provider, allTokens, requiresAuth, attempts, token, calls,
                 lastResult, exh0, triggers, blocked, runsStarted, terminals,
                 home, ledger>>


\* ------------------------------------------------- lib/api.ts (client)
\* getErrorMessage(parseErrorResponse(data)) for the error body of r, with no
\* details object in it.
getErrorMessage(r) ==
  IF r.body # "error" THEN "Unknown error"
  ELSE IF r.code = "AUTH_REQUIRED" THEN "Please configure your API token first"
  ELSE IF r.code = "AUTH_INVALID"
    THEN "Invalid API token. Please check your token and try again."
  ELSE IF r.code = "AUTH_EXPIRED" THEN "Your API token has expired. Please update it."
  ELSE IF r.code = "RATE_LIMITED"
    THEN "Too many requests. Please wait a moment and try again."
  ELSE IF r.code = "QUOTA_EXCEEDED"
    THEN "API quota exceeded for this provider. Please check your account."
  ELSE IF r.code = "TIMEOUT"
    THEN "Request timed out. The service may be busy. Please try again."
  ELSE r.error

\* generateImage / upscaleImage, from the response on: the ApiResponse.
\* response.json() raises on an empty or non-JSON body; the catch turns that
\* into a failure carrying the parser's message.
ApiResponse(r) ==
  IF r.body \in {"empty", "nonjson"}
  THEN [success |-> FALSE, error |-> "Unexpected end of JSON input", url |-> ""]
  ELSE IF r.status # 200
  THEN [success |-> FALSE, error |-> getErrorMessage(r), url |-> ""]
  ELSE [success |-> TRUE, error |-> "",
        url |-> IF r.body \in {"details", "dataurl"} THEN UrlOf(r) ELSE ""]

\* What POST /api/upscale can answer: "details" carries the upscaled url.
UpscaleResponses ==
  { Resp(200, "details", "", ""),
    Resp(200, "nodetails", "", ""),
    Resp(200, "empty", "", ""),
    Resp(500, "error", "UPSTREAM_ERROR", "upscale failed"),
    Resp(429, "error", "QUOTA_EXCEEDED", "quota exceeded") }

upscaleImage(r) ==
  LET a == ApiResponse(r)
  IN [a EXCEPT !.url = IF a.success /\ r.body = "details" THEN "http://upscaled" ELSE ""]

StartsWithHttp(url) == url \in {"http://image", "http://upscaled"}

\* ------------------------------------------------ home page (the hook)
HomeInit(up) ==
  [pc |-> "idle", loading |-> FALSE, imageUrl |-> "", historyId |-> 0,
   upscale8k |-> up, tokens |-> <<>>, requiresAuth |-> FALSE, detailsUrl |-> "",
   pc2 |-> "idle", detailsUrl2 |-> "",
   outcome |-> "none", toasts |-> {}, runs |-> 0, genCalls |-> <<>>, upCalls |-> 0,
   upResp |-> Resp(0, "", "", "")]

\* The hook runs handleGenerate as often as it is invoked; each invocation i
\* has its own position and its own details object, and all of them share the
\* hook's state.
PcOf(i) == IF i = 1 THEN "pc" ELSE "pc2"
DetailsOf(i) == IF i = 1 THEN "detailsUrl" ELSE "detailsUrl2"

\* handleGenerate is invoked (invocation i) with the provider's token string
\* parsing to toks.
HandleGenerateAt(i, toks, ra) ==
  /\ route = "/"
  /\ home[PcOf(i)] = "idle"
  /\ home.runs < MaxHomeRuns
  /\ IF ra /\ Len(toks) = 0
     THEN home' = [home EXCEPT !.tokens = toks, !.requiresAuth = ra,
                               !.runs = @ + 1, !.outcome = "none",
                               !.genCalls = IF i = 1 THEN <<>> ELSE @,
                               !.upCalls = IF i = 1 THEN 0 ELSE @,
                               !.toasts = {"Please configure your token first"}]
     ELSE \* lines 265-288: reset the view, send the request; the auth object
          \* carries a tokens property, generateImage reads its token property
          home' = [home EXCEPT !.tokens = toks, !.requiresAuth = ra,
                               !.runs = @ + 1, !.outcome = "none", !.toasts = {},
                               !.loading = TRUE, !.imageUrl = "", !.historyId = 0,
                               ![DetailsOf(i)] = "", ![PcOf(i)] = "gen",
                               !.genCalls = IF i = 1 THEN <<NoToken>>
                                            ELSE Append(@, NoToken),
                               !.upCalls = IF i = 1 THEN 0 ELSE @]
  /\ UNCHANGED <<route, tabs, now, storage, nextId, exhausted, nodeVars, ledger>>

\* handleGenerate is invoked while no other invocation is running.
HandleGenerate(toks, ra) == HandleGenerateAt(1, toks, ra)

\* handleGenerate is invoked again while an earlier invocation is awaiting
\* its response: nothing in lines 256-263 stops it.
HandleGenerateAgain(toks, ra) ==
  /\ home.pc # "idle"
  /\ HandleGenerateAt(2, toks, ra)

\* Lines 317-337 and the finally block: the entry is saved, the result shown.
HomeSaveAt(i, h, url, fault) ==
  LET sv == saveToHistoryIO(storage, now, nextId, url, "home", fault)
  IN /\ storage' = sv.value
     /\ nextId' = nextId + 1
     /\ home' = IF sv.raised
                THEN [h EXCEPT ![PcOf(i)] = "idle", !.loading = FALSE,
                               !.outcome = "failed",
                               !.toasts = @ \cup {StorageErrorMsg}]
                ELSE [h EXCEPT ![PcOf(i)] = "idle", !.loading = FALSE,
                               !.imageUrl = url,
                               !.historyId = nextId, !.outcome = "succeeded",
                               !.toasts = @ \cup {"Image generated!"}]

HomeSaveIO(h, url, fault) == HomeSaveAt(1, h, url, fault)

HomeSave(h, url) == HomeSaveIO(h, url, "none")

\* Lines 338-344: the catch and finally blocks.
HomeFailAt(i, h, msg) ==
  /\ home' = [h EXCEPT ![PcOf(i)] = "idle", !.loading = FALSE, !.outcome = "failed",
                       !.toasts = @ \cup {msg}]
  /\ UNCHANGED <<storage, nextId>>

HomeFail(h, msg) == HomeFailAt(1, h, msg)

\* generateImage of invocation i resolves with the response r.
HomeGeneratedAt(i, r, fault) ==
  /\ route = "/"
  /\ home[PcOf(i)] = "gen"
  /\ LET result == ApiResponse(r)
     IN IF ~result.success THEN HomeFailAt(i, home, result.error)
        ELSE IF result.url = "" THEN HomeFailAt(i, home, "No image returned")
        ELSE IF home.upscale8k /\ StartsWithHttp(result.url)
        THEN /\ home' = [home EXCEPT ![PcOf(i)] = "upscale",
                                     ![DetailsOf(i)] = result.url,
                                     !.upCalls = @ + 1]
             /\ UNCHANGED <<storage, nextId>>
        ELSE HomeSaveAt(i, [home EXCEPT ![DetailsOf(i)] = result.url],
                        result.url, fault)
  /\ UNCHANGED <<route, tabs, now, exhausted, nodeVars, ledger>>

HomeGeneratedIO(r, fault) == HomeGeneratedAt(1, r, fault)

HomeGenerated(r) == HomeGeneratedIO(r, "none")

\* Variant: a failed upscale is thrown into the catch block.
HomeUpscaledThrows(r) ==
  /\ route = "/"
  /\ home.pc = "upscale"
  /\ LET upResult == upscaleImage(r)
     IN IF upResult.success /\ upResult.url # ""
        THEN HomeSave([home EXCEPT !.upResp = r], upResult.url)
        ELSE HomeFail([home EXCEPT !.upResp = r], "8K upscale failed")
  /\ UNCHANGED <<route, tabs, now, exhausted, nodeVars, ledger>>

\* The chained upscaleImage of invocation i resolves with the response r.
HomeUpscaledAt(i, r, fault) ==
  /\ route = "/"
  /\ home[PcOf(i)] = "upscale"
  /\ LET upResult == upscaleImage(r)
     IN IF upResult.success /\ upResult.url # ""
        THEN HomeSaveAt(i, [home EXCEPT !.upResp = r], upResult.url, fault)
        ELSE HomeSaveAt(i, [home EXCEPT !.upResp = r, !.toasts =
                              @ \cup {"8K upscale failed, showing original image"}],
                        home[DetailsOf(i)], fault)
  /\ UNCHANGED <<route, tabs, now, exhausted, nodeVars, ledger>>

HomeUpscaledIO(r, fault) == HomeUpscaledAt(1, r, fault)

HomeUpscaled(r) == HomeUpscaledIO(r, "none")

\* ------------------------------------------------------- specification
\* The tabs of the application open on the same origin: they share one
\* localStorage and each runs its own event loop.
Tabs == {1, 2}
IdleTab == [pc |-> "idle", items |-> <<>>, prev |-> <<>>, entry |-> 0, at |-> 0,
            done |-> {}]

NoLedgerOp ==
  [op |-> "none", id |-> 0, at |-> 0, result |-> <<>>, swept |-> {},
   appended |-> 0, appendedAt |-> 0, ticks |-> 0]

InitWith(routes, units) ==
  /\ route \in routes
  /\ now = 0
  /\ storage = NoValue
  /\ nextId = 1
  /\ exhausted = [p \in Providers |-> {}]
  /\ hasHydrated = FALSE
  /\ nodeData \in [Units -> {FreshNode, RestoredNode, AbsentNode}]
  /\ \A u \in Units : IF u \in units /\ route = "/flow"
                      THEN nodeData[u] # AbsentNode ELSE nodeData[u] = AbsentNode
  /\ generatingRef = [u \in Units |-> FALSE]
  /\ pc = [u \in Units |-> "idle"]
  /\ provider = [u \in Units |-> "huggingface"]
  /\ allTokens = [u \in Units |-> <<>>]
  /\ requiresAuth = [u \in Units |-> FALSE]
  /\ attempts = [u \in Units |-> 0]
  /\ token = [u \in Units |-> NoToken]
  /\ calls = [u \in Units |-> <<>>]
  /\ lastResult = [u \in Units |-> Ok("")]
  /\ blocked = [u \in Units |-> 0]
  /\ exh0 = [u \in Units |-> {}]
  /\ triggers = [u \in Units |-> 0]
  /\ runsStarted = [u \in Units |-> 0]
  /\ terminals = [u \in Units |-> <<>>]
  /\ home \in {HomeInit(up) : up \in (IF route = "/" THEN BOOLEAN ELSE {FALSE})}
  /\ ledger = NoLedgerOp
  /\ tabs = [w \in Tabs |-> IdleTab]

\* One flow node (or the home page), one provider, credential lists of up to
\* MaxTokens secrets.
Init == InitWith({"/", "/flow"}, {1})

Next ==
  \/ Hydrate
  \/ Effect(1)
  \/ Loaded(1, {"huggingface"}, MaxTokens)
  \/ \E r \in Responses : Response(1, r)
  \/ \E t \in 1..MaxPreExhausted : MarkedElsewhere("huggingface", t)
  \/ \E toks \in TokenLists(MaxTokensSmall), ra \in BOOLEAN : HandleGenerate(toks, ra)
  \/ \E r \in Responses : HomeGenerated(r)
  \/ \E r \in UpscaleResponses : HomeUpscaled(r)

Spec == Init /\ [][Next]_vars


\* ------------------------------------------- the ledger's operations
Ids(items) == {items[i].id : i \in 1..Len(items)}

\* saveToHistory is called (by either page) for a generated image.
LedgerAppendDo(url, source) ==
  /\ storage' = saveToHistory(storage, now, nextId, url, source)
  /\ nextId' = nextId + 1
  /\ ledger' = [ledger EXCEPT !.op = "append", !.id = nextId, !.at = now,
                              !.result = <<>>, !.swept = {},
                              !.appended = nextId, !.appendedAt = now]
  /\ UNCHANGED <<route, tabs, now, exhausted, nodeVars, home>>

LedgerAppend(url, source) ==
  /\ nextId <= MaxAppends
  /\ LedgerAppendDo(url, source)

\* getHistory is called (the history panel lists the entries).
LedgerList ==
  /\ storage' = getHistoryStored(storage, now)
  /\ ledger' = [ledger EXCEPT !.op = "list", !.id = 0, !.at = now,
                              !.result = getHistory(storage, now),
                              !.swept = Ids(safeParseArray(storage))
                                          \ Ids(getHistory(storage, now))]
  /\ UNCHANGED <<route, tabs, now, nextId, exhausted, nodeVars, home>>

\* getAllHistoryIncludingExpired is called: a raw read of the storage.
LedgerRawRead ==
  /\ ledger.op # "raw"
  /\ ledger' = [ledger EXCEPT !.op = "raw", !.id = 0, !.at = now,
                              !.result = getAllHistoryIncludingExpired(storage)]
  /\ UNCHANGED <<route, tabs, now, storage, nextId, exhausted, nodeVars, home>>

\* deleteHistoryItem(id) is called, for a stored id or any other.
LedgerDelete(id) ==
  /\ storage' = deleteHistoryItem(storage, id)
  /\ ledger' = [ledger EXCEPT !.op = "delete", !.id = id, !.at = now,
                              !.result = <<>>, !.swept = {},
                              !.appended = IF @ = id THEN 0 ELSE @]
  /\ UNCHANGED <<route, tabs, now, nextId, exhausted, nodeVars, home>>

\* clearExpiredHistory is called.
LedgerClearExpired ==
  /\ storage' = clearExpiredHistory(storage, now)
  /\ ledger' = [ledger EXCEPT !.op = "clearExpired", !.id = 0, !.at = now,
                              !.result = <<>>, !.swept = {}]
  /\ UNCHANGED <<route, tabs, now, nextId, exhausted, nodeVars, home>>

\* clearAllHistory is called: the key is removed.
LedgerClearAll ==
  /\ storage' = NoValue
  /\ ledger' = [ledger EXCEPT !.op = "clearAll", !.id = 0, !.at = now,
                              !.result = <<>>, !.swept = {}, !.appended = 0]
  /\ UNCHANGED <<route, tabs, now, nextId, exhausted, nodeVars, home>>

\* Time passes: by a millisecond, or to one millisecond short of the TTL.
Tick(d) ==
  /\ ledger.ticks < MaxTicks
  /\ now' = now + d
  /\ ledger' = [ledger EXCEPT !.ticks = @ + 1]
  /\ UNCHANGED <<route, tabs, storage, nextId, exhausted, nodeVars, home>>

InitHist ==
  /\ InitWith({"/"}, {})
  /\ ~home.upscale8k

NextHist ==
  \/ \E source \in {"home", "flow"} : LedgerAppend("http://image", source)
  \/ LedgerList
  \/ LedgerRawRead
  \/ \E id \in 1..MaxAppends : LedgerDelete(id)
  \/ LedgerClearExpired
  \/ LedgerClearAll
  \/ \E d \in {1, HISTORY_TTL_MS - 1} : Tick(d)

\* The history ledger alone, with a clock.
SpecHist == InitHist /\ [][NextHist]_vars


\* The ledger filled beyond its capacity: appends up to MAX_ITEMS + MaxAppends
\* entries, deletions of the first entries, and the clock advancing once the
\* ledger is full.
LedgerAppendFull(source) ==
  /\ nextId <= MAX_ITEMS + MaxAppends
  /\ LedgerAppendDo("http://image", source)

TickFull(d) ==
  /\ Len(safeParseArray(storage)) >= MAX_ITEMS
  /\ Tick(d)

NextCap ==
  \/ LedgerAppendFull("flow")
  \/ \E id \in 1..MaxAppends : LedgerDelete(id)
  \/ \E d \in {1, HISTORY_TTL_MS - 1} : TickFull(d)

SpecCap == InitHist /\ [][NextCap]_vars

\* Values of the history key that are no JSON array: the text of an array
\* cut short, which JSON.parse rejects, and a JSON object that wraps the
\* entries. items is what a reader that ignored the defect would find.
CorruptValues ==
  { [kind |-> k, items |-> <<NewEntry(0, 0, "http://image", "home")>>] :
      k \in {"corrupt", "nonarray"} }

\* Something other than the history store writes the history key.
StorageOverwritten(v) ==
  /\ storage # v
  /\ storage' = v
  /\ UNCHANGED <<route, tabs, now, nextId, exhausted, nodeVars, home, ledger>>

\* The history ledger over a storage whose value gets corrupted.
NextCorrupt ==
  \/ \E v \in CorruptValues : StorageOverwritten(v)
  \/ \E source \in {"home", "flow"} : LedgerAppend("http://image", source)
  \/ LedgerList
  \/ LedgerRawRead

SpecCorrupt == InitHist /\ [][NextCorrupt]_vars

\* One flow node whose effect re-runs, or the home page whose handleGenerate
\* is invoked again before the earlier invocation has returned.
NextReentry ==
  \/ Hydrate
  \/ Effect(1)
  \/ Loaded(1, {"huggingface"}, MaxTokensSmall)
  \/ \E r \in Responses : Response(1, r)
  \/ \E toks \in TokenLists(MaxTokensSmall), ra \in BOOLEAN : HandleGenerate(toks, ra)
  \/ \E toks \in TokenLists(MaxTokensSmall), ra \in BOOLEAN :
       HandleGenerateAgain(toks, ra)
  \/ \E i \in {1, 2}, r \in MainResponses : HomeGeneratedAt(i, r, "none")
  \/ \E i \in {1, 2}, r \in UpscaleResponses : HomeUpscaledAt(i, r, "none")

SpecReentry == Init /\ [][NextReentry]_vars

\* Two flow nodes on the same page, each running for one of the providers:
\* their runs interleave at every await.
InitPool == InitWith({"/flow"}, {1, 2})

NextPool ==
  \/ Hydrate
  \/ \E u \in Units : EffectUpTo(u, 1)
  \/ \E u \in Units : Loaded(u, Providers, MaxTokensSmall)
  \/ \E u \in Units, r \in MainResponses : Response(u, r)

SpecPool == InitPool /\ [][NextPool]_vars

\* saveToHistory called in tab w, step by step: each access to localStorage
\* is a step of its own, since another tab can access the same storage
\* between two of them. First the entry is built and getHistory reads the
\* stored value (lines 401-408, 387-389).
TabRead(w, source) ==
  /\ tabs[w].pc = "idle"
  /\ nextId <= MaxTabAppends
  /\ nextId' = nextId + 1
  /\ tabs' = [tabs EXCEPT ![w] =
       [@ EXCEPT !.items = safeParseArray(storage),
                 !.prev = getHistory(storage, now),
                 !.entry = nextId,
                 !.at = now,
                 !.pc = IF Len(getHistory(storage, now)) # Len(safeParseArray(storage))
                        THEN "sweep" ELSE "write"]]
  /\ UNCHANGED <<route, now, storage, exhausted, nodeVars, home, ledger>>

\* getHistory writes the unexpired entries back (line 390).
TabSweep(w) ==
  /\ tabs[w].pc = "sweep"
  /\ storage' = Stringify(tabs[w].prev)
  /\ tabs' = [tabs EXCEPT ![w] = [@ EXCEPT !.pc = "write"]]
  /\ UNCHANGED <<route, now, nextId, exhausted, nodeVars, home, ledger>>

\* saveToHistory writes the new list and returns (lines 410-412).
TabWrite(w, source) ==
  /\ tabs[w].pc = "write"
  /\ storage' = Stringify(Slice(<<NewEntry(tabs[w].entry, tabs[w].at,
                                           "http://image", source)>>
                                  \o tabs[w].prev, MAX_ITEMS))
  /\ tabs' = [tabs EXCEPT ![w] =
       [@ EXCEPT !.pc = "idle", !.done = @ \cup {[id |-> tabs[w].entry,
                                             expiresAt |-> tabs[w].at + HISTORY_TTL_MS]}]]
  /\ UNCHANGED <<route, now, nextId, exhausted, nodeVars, home, ledger>>

\* Two tabs appending to the same ledger, with a clock.
NextTabs ==
  \/ \E w \in Tabs : TabRead(w, "home")
  \/ \E w \in Tabs : TabSweep(w)
  \/ \E w \in Tabs : TabWrite(w, "home")
  \/ \E d \in {1, HISTORY_TTL_MS - 1} : Tick(d)

SpecTabs == InitHist /\ [][NextTabs]_vars

\* The caller restarts the failed node u: the store sets it loading again.
\* The store holds the node's data only; generatingRef belongs to the mounted
\* component.
Restart(u) ==
  /\ route = "/flow"
  /\ pc[u] = "done"
  /\ nodeData[u].error # ""
  /\ ~nodeData[u].isLoading
  /\ nodeData' = [nodeData EXCEPT ![u] = [@ EXCEPT !.isLoading = TRUE, !.error = ""]]
  /\ UNCHANGED <<route, tabs, now, storage, nextId, exhausted, hasHydrated,
                 generatingRef, pc, provider, allTokens, requiresAuth, attempts,
                 token, calls, lastResult, exh0, triggers, blocked, runsStarted,
                 terminals, home, ledger>>

\* One flow node that its caller restarts after a failure.
InitRestart == InitWith({"/flow"}, {1})

NextRestart ==
  \/ Hydrate
  \/ Effect(1)
  \/ Loaded(1, {"huggingface"}, MaxTokensSmall)
  \/ \E r \in Responses : Response(1, r)
  \/ Restart(1)

SpecRestart == InitRestart /\ [][NextRestart]_vars

\* Another run of provider p marks secret t exhausted at any moment, also
\* while a run of this page is awaiting a call.
MarkedByOtherRun(p, t) ==
  /\ route = "/flow"
  /\ t \notin exhausted[p]
  /\ exhausted' = markTokenExhausted(exhausted, p, t)
  /\ UNCHANGED <<route, tabs, now, storage, nextId, hasHydrated, nodeData, generatingRef,
                 pc, provider, allTokens, requiresAuth, attempts, token, calls,
                 lastResult, exh0, triggers, blocked, runsStarted, terminals,
                 home, ledger>>

\* One flow node running over lists of up to MaxTokens secrets while other
\* runs of its provider mark secrets exhausted.
NextBound ==
  \/ Hydrate
  \/ EffectUpTo(1, 1)
  \/ Loaded(1, {"huggingface"}, MaxTokens)
  \/ \E r \in Responses : Response(1, r)
  \/ \E t \in 1..MaxPreExhausted : MarkedByOtherRun("huggingface", t)

SpecBound == InitRestart /\ [][NextBound]_vars

\* One flow node (or the home page) over a storage that may raise.
NextStore ==
  \/ Hydrate
  \/ Effect(1)
  \/ Loaded(1, {"huggingface"}, MaxTokensSmall)
  \/ \E r \in Responses, f \in StorageFaults : ResponseIO(1, r, f)
  \/ \E toks \in TokenLists(MaxTokensSmall), ra \in BOOLEAN : HandleGenerate(toks, ra)
  \/ \E r \in Responses, f \in StorageFaults : HomeGeneratedIO(r, f)
  \/ \E r \in UpscaleResponses, f \in StorageFaults : HomeUpscaledIO(r, f)

SpecStore == Init /\ [][NextStore]_vars

\* The generation effect of node u runs and starts a run. React runs the
\* effect after mount and after every change of hasHydrated, imageUrl or
\* isLoading (lines 206-217), and generatingRef changes only inside the
\* effect, so whenever the guard holds a run of the effect is due; MaxEffects
\* bounds only the runs that return early.
EffectStarts(u) ==
  /\ EffectGuard(u)
  /\ EffectUpTo(u, MaxEffects + 1)

\* One flow node that its caller may restart after a failure, or the home
\* page, where the store hydrates, the effect runs when it is due,
\* loadTokensArray resolves and every upstream call is answered. Nothing
\* obliges the user to invoke handleGenerate or the caller to restart a node.
NextLive ==
  \/ Hydrate
  \/ Effect(1)
  \/ EffectStarts(1)
  \/ Loaded(1, {"huggingface"}, MaxTokens)
  \/ \E r \in Responses : Response(1, r)
  \/ Restart(1)
  \/ \E toks \in TokenLists(MaxTokensSmall), ra \in BOOLEAN : HandleGenerate(toks, ra)
  \/ \E r \in Responses : HomeGenerated(r)
  \/ \E r \in UpscaleResponses : HomeUpscaled(r)

Fairness ==
  /\ WF_vars(Hydrate)
  /\ WF_vars(EffectStarts(1))
  /\ WF_vars(Loaded(1, {"huggingface"}, MaxTokens))
  /\ WF_vars(\E r \in Responses : Response(1, r))
  /\ WF_vars(\E r \in Responses : HomeGenerated(r))
  /\ WF_vars(\E r \in UpscaleResponses : HomeUpscaled(r))

SpecLive == Init /\ [][NextLive]_vars /\ Fairness

\* ================================================================ claims
Min(a, b) == IF a < b THEN a ELSE b

AllExhaustedMsg == "All API tokens exhausted. Quota will reset tomorrow."
MaxAttemptsMsg == "Maximum retry attempts reached"

\* The messages of the quota-classified errors a call can throw.
QuotaMessages ==
  {generateImageApiSingle(r).message :
     r \in {x \in Responses : ~generateImageApiSingle(x).ok
                              /\ Classify(generateImageApiSingle(x)) = "quota"}}

\* Node u's run has ended, its list was not empty and every call it made was
\* classified quota.
QuotaRun(u) ==
  /\ pc[u] = "done"
  /\ Len(allTokens[u]) > 0
  /\ \A i \in 1..Len(calls[u]) : calls[u][i].class = "quota"

\* The secrets of the list that were available when the run began, in order.
Available0(u) == SelectSeq(allTokens[u], LAMBDA t : t \notin exh0[u])
SecretCalls(u) == SelectSeq(calls[u], LAMBDA c : c.token # NoToken)
AnonCalls(u) == SelectSeq(calls[u], LAMBDA c : c.token = NoToken)

\* C1 as stated: an all-quota run over a list of N secrets (all of them
\* available when it begins) makes exactly min(N, maxAttempts) calls, marks every secret it tried and fails with
\* AllCredentialsExhausted or MaxAttemptsReached, whatever requiresAuth is.
C1_ExactlyMinCalls ==
  \A u \in Units : (QuotaRun(u) /\ Available0(u) = allTokens[u]) =>
    /\ Len(calls[u]) = Min(Len(allTokens[u]), MAX_RETRY_ATTEMPTS)
    /\ \A i \in 1..Len(SecretCalls(u)) :
         SecretCalls(u)[i].token \in exhausted[provider[u]]
    /\ nodeData[u].error \in {AllExhaustedMsg, MaxAttemptsMsg}

\* C1 amended: with A secrets of the list available when the run begins, an
\* all-quota run makes exactly min(A, maxAttempts) calls with a secret and
\* marks each of them; with requiresAuth it then fails with
\* AllCredentialsExhausted (A < maxAttempts) or MaxAttemptsReached; without
\* requiresAuth and A < maxAttempts it makes one more, anonymous, call and
\* fails with that call's error, and with A >= maxAttempts it fails with
\* MaxAttemptsReached.
C1_MinAvailableCalls ==
  \A u \in Units : QuotaRun(u) =>
    LET A == Len(Available0(u))
    IN /\ Len(SecretCalls(u)) = Min(A, MAX_RETRY_ATTEMPTS)
       /\ \A i \in 1..Len(SecretCalls(u)) :
            /\ calls[u][i] = SecretCalls(u)[i]
            /\ SecretCalls(u)[i].token \in exhausted[provider[u]]
       /\ IF A >= MAX_RETRY_ATTEMPTS
          THEN AnonCalls(u) = <<>> /\ nodeData[u].error = MaxAttemptsMsg
          ELSE IF requiresAuth[u]
          THEN AnonCalls(u) = <<>> /\ nodeData[u].error = AllExhaustedMsg
          ELSE /\ Len(AnonCalls(u)) = 1
               /\ nodeData[u].error \in QuotaMessages
               /\ nodeData[u].error = lastResult[u].message

C1_Witness ==
  \E u \in Units :
    /\ QuotaRun(u)
    /\ Len(allTokens[u]) > MAX_RETRY_ATTEMPTS
    /\ Len(calls[u]) = MAX_RETRY_ATTEMPTS
    /\ nodeData[u].error = MaxAttemptsMsg

\* C2: with requiresAuth, a list of N < maxAttempts secrets, all available at
\* the start and all quota-failing, ends in 'All API tokens exhausted', with
\* every secret of the list marked exhausted and no successful call.
C2_AllExhausted ==
  \A u \in Units :
    ( /\ QuotaRun(u)
      /\ requiresAuth[u]
      /\ Available0(u) = allTokens[u]
      /\ Len(allTokens[u]) < MAX_RETRY_ATTEMPTS )
    => /\ nodeData[u].error = AllExhaustedMsg
       /\ nodeData[u].imageUrl = ""
       /\ terminals[u] = <<"error">>
       /\ Len(calls[u]) = Len(allTokens[u])
       /\ \A i \in 1..Len(allTokens[u]) : allTokens[u][i] \in exhausted[provider[u]]

C2_Witness ==
  \E u \in Units :
    /\ QuotaRun(u)
    /\ requiresAuth[u]
    /\ allTokens[u] = <<1, 2>>
    /\ exh0[u] = {}
    /\ exhausted[provider[u]] = {1, 2}
    /\ nodeData[u].error = AllExhaustedMsg

\* C3: the k-th call made with a secret uses the k-th secret of the list that
\* was available when the run began, and the secret of the call in flight is
\* the first secret of the list that is not marked exhausted.
C3_RotationOrder ==
  \A u \in Units :
    /\ \A k \in 1..Len(calls[u]) :
         calls[u][k].token # NoToken =>
           /\ k <= Len(Available0(u))
           /\ calls[u][k].token = Available0(u)[k]
    /\ (pc[u] = "call" /\ token[u] # NoToken) =>
         LET free == SelectSeq(allTokens[u],
                               LAMBDA t : t \notin exhausted[provider[u]])
         IN free # <<>> /\ token[u] = free[1]

C3_Witness ==
  \E u \in Units :
    /\ pc[u] = "call"
    /\ Len(allTokens[u]) = 3
    /\ exh0[u] = {}
    /\ Len(calls[u]) = 2
    /\ calls[u][1] = [token |-> allTokens[u][1], class |-> "quota"]
    /\ token[u] = allTokens[u][2]

\* C4: with requiresAuth and an empty credential list the generation fails
\* with the no-credential failure and no upstream call is made, in the flow
\* node and in handleGenerate.
C4_NoCredentialNoCall ==
  /\ \A u \in Units :
       (pc[u] \in {"call", "done"} /\ requiresAuth[u] /\ allTokens[u] = <<>>)
       => /\ pc[u] = "done"
          /\ calls[u] = <<>>
          /\ nodeData[u].error = "No API Token"
          /\ nodeData[u].imageUrl = ""
          /\ terminals[u] = <<"error">>
  /\ (home.runs > 0 /\ home.requiresAuth /\ home.tokens = <<>>)
     => /\ home.pc = "idle"
        /\ home.genCalls = <<>>
        /\ home.upCalls = 0
        /\ ~home.loading
        /\ home.outcome # "succeeded"
        /\ home.toasts = {"Please configure your token first"}

C4_Witness ==
  \E u \in Units :
    /\ pc[u] = "done"
    /\ requiresAuth[u]
    /\ allTokens[u] = <<>>
    /\ nodeData[u].error = "No API Token"

\* C5: with an empty credential list and requiresAuth false the run makes
\* exactly one call, with no token, its outcome is that call's outcome, and
\* the token pool is left as it was.
C5_OneAnonymousCall ==
  \A u \in Units :
    (pc[u] \in {"call", "done"} /\ allTokens[u] = <<>> /\ ~requiresAuth[u])
    => /\ Len(calls[u]) = 1
       /\ calls[u][1].token = NoToken
       /\ exhausted[provider[u]] = exh0[u]
       /\ pc[u] = "done" =>
            IF lastResult[u].ok
            THEN /\ calls[u][1].class = "ok"
                 /\ nodeData[u] = [isLoading |-> FALSE,
                                   imageUrl |-> lastResult[u].url, error |-> ""]
                 /\ terminals[u] = <<"generated">>
            ELSE /\ calls[u][1].class = Classify(lastResult[u])
                 /\ nodeData[u].error = lastResult[u].message
                 /\ nodeData[u].imageUrl = ""
                 /\ terminals[u] = <<"error">>

C5_Witness ==
  \E u \in Units :
    /\ pc[u] = "done"
    /\ allTokens[u] = <<>>
    /\ ~requiresAuth[u]
    /\ calls[u] = <<[token |-> NoToken, class |-> "quota"]>>
    /\ nodeData[u].error \in QuotaMessages

\* C6: after a call made with a secret fails with an auth-classified error,
\* no later call of the run uses a secret; the run makes exactly one
\* anonymous call when the provider allows anonymous access (requiresAuth
\* false), and otherwise fails with no further call.
C6_AuthFallsBackOnce ==
  \A u \in Units :
    pc[u] = "done" =>
      \A i \in 1..Len(calls[u]) :
        (calls[u][i].class = "auth" /\ calls[u][i].token # NoToken)
        => /\ \A j \in (i + 1)..Len(calls[u]) : calls[u][j].token = NoToken
           /\ Len(calls[u]) - i = IF requiresAuth[u] THEN 0 ELSE 1

\* C7: the generation effect starts at most one run per node however often
\* it is triggered: a trigger while the run is pending, or when the node
\* already holds an image, changes nothing, and a run whose first call
\* succeeds makes that one call only.
C7_SingleFlight ==
  \A u \in Units :
    /\ runsStarted[u] <= 1
    /\ Len(terminals[u]) <= runsStarted[u]
    /\ (pc[u] = "idle") = (runsStarted[u] = 0)
    /\ (nodeData[u].imageUrl # "" /\ terminals[u] = <<>>) => runsStarted[u] = 0
    /\ (pc[u] = "done" /\ calls[u] # <<>> /\ calls[u][1].class = "ok")
       => Len(calls[u]) = 1 /\ terminals[u] = <<"generated">>

C7_Witness ==
  \E u \in Units :
    /\ blocked[u] >= 1
    /\ triggers[u] >= 2
    /\ runsStarted[u] = 1
    /\ pc[u] = "done"
    /\ Len(calls[u]) = 1
    /\ calls[u][1].class = "ok"

\* The upscale call failed, or it returned no url.
UpscaleFailed(r) == r.status # 200 \/ r.body # "details"

\* C8: when the primary generation succeeded and the chained upscale was
\* attempted, handleGenerate ends succeeded, never failed; if the upscale
\* failed or returned no url the original url is shown and saved and a
\* notice is raised, if it succeeded the upscaled url is shown and saved.
C8_UpscaleNeverDowngrades ==
  /\ home.pc = "upscale" => home.outcome = "none" /\ home.loading
  /\ (home.pc = "idle" /\ home.upCalls = 1)
     => /\ home.outcome = "succeeded"
        /\ ~home.loading
        /\ home.historyId # 0
        /\ safeParseArray(storage) # <<>>
        /\ Head(safeParseArray(storage)).id = home.historyId
        /\ Head(safeParseArray(storage)).url = home.imageUrl
        /\ IF UpscaleFailed(home.upResp)
           THEN /\ home.imageUrl = home.detailsUrl
                /\ home.imageUrl = "http://image"
                /\ "8K upscale failed, showing original image" \in home.toasts
           ELSE /\ home.imageUrl = "http://upscaled"
                /\ "8K upscale failed, showing original image" \notin home.toasts

C8_Witness ==
  /\ home.pc = "idle"
  /\ home.upCalls = 1
  /\ UpscaleFailed(home.upResp)
  /\ home.outcome = "succeeded"
  /\ home.imageUrl = "http://image"

\* C9: a list that follows an append, with no other change of the ledger in
\* between and less than the TTL elapsed, returns the appended entry first,
\* ahead of every older entry, with expiresAt - timestamp equal to the TTL.
C9_AppendThenList ==
  (ledger.op = "list" /\ ledger.appended # 0
     /\ ledger.at - ledger.appendedAt < HISTORY_TTL_MS)
  => /\ ledger.result # <<>>
     /\ ledger.result[1].id = ledger.appended
     /\ ledger.result[1].timestamp = ledger.appendedAt
     /\ ledger.result[1].expiresAt - ledger.result[1].timestamp = HISTORY_TTL_MS
     /\ \A i \in 2..Len(ledger.result) :
          /\ ledger.result[i].id < ledger.result[1].id
          /\ ledger.result[i].timestamp <= ledger.result[1].timestamp

C9_Witness ==
  /\ ledger.op = "list"
  /\ ledger.appended # 0
  /\ ledger.at = ledger.appendedAt
  /\ Len(ledger.result) >= 2
  /\ ledger.result[1].id = ledger.appended
  /\ ledger.result[2].timestamp < ledger.result[1].timestamp

\* C10: a list at time now returns only entries with expiresAt > now and
\* leaves in storage exactly what it returned, so a raw read of the storage
\* after it contains none of the entries it swept.
C10_LazySweep ==
  /\ ledger.op = "list" =>
       /\ \A i \in 1..Len(ledger.result) : ledger.result[i].expiresAt > ledger.at
       /\ getAllHistoryIncludingExpired(storage) = ledger.result
  /\ ledger.op = "raw" =>
       \A i \in 1..Len(ledger.result) : ledger.result[i].id \notin ledger.swept

C10_Witness ==
  /\ ledger.op = "raw"
  /\ ledger.swept # {}
  /\ ledger.result # <<>>


\* C11: every append leaves at most MAX_ITEMS entries with the new entry
\* first; appended to MAX_ITEMS unexpired entries it leaves exactly MAX_ITEMS,
\* the new one followed by the former ones without the last, which is the
\* oldest; below the capacity no entry is dropped.
C11_SizeBound ==
  [][ nextId' = nextId + 1 =>
        LET old == getHistory(storage, now)
            new == safeParseArray(storage')
        IN /\ Len(new) <= MAX_ITEMS
           /\ Len(new) >= 1
           /\ new[1].id = nextId
           /\ IF Len(old) >= MAX_ITEMS
              THEN /\ Len(new) = MAX_ITEMS
                   /\ \A i \in 2..MAX_ITEMS : new[i] = old[i - 1]
                   /\ \A i \in 1..Len(old) : old[Len(old)].id <= old[i].id
              ELSE Tail(new) = old ]_vars

C11_Witness ==
  /\ ledger.op = "append"
  /\ nextId > MAX_ITEMS + 1
  /\ Len(safeParseArray(storage)) = MAX_ITEMS
  /\ safeParseArray(storage)[1].id = nextId - 1
  /\ safeParseArray(storage)[MAX_ITEMS].id > 1


\* Node u's run has ended in failure.
RunFailed(u) == pc[u] = "done" /\ terminals[u] = <<"error">>

\* A call answered with a non-quota error is the last call of its run, and
\* its error is stored on the node as the unit's failure.
NonQuotaIsTerminal ==
  \A u \in Units : \A k \in 1..Len(calls[u]) :
    calls[u][k].class \in {"auth", "transient", "fatal"} =>
      /\ k = Len(calls[u])
      /\ RunFailed(u)
      /\ ~nodeData[u].isLoading
      /\ nodeData[u].error = lastResult[u].message

\* C12 as stated: whenever a run over a non-empty list fails after only
\* quota-classified failures, every secret of the list is marked exhausted,
\* whatever the length of the list; every non-quota error is the unit's
\* terminal failure.
C12_QuotaNeverSurfaces ==
  /\ \A u \in Units : (QuotaRun(u) /\ RunFailed(u)) =>
       \A i \in 1..Len(allTokens[u]) : allTokens[u][i] \in exhausted[provider[u]]
  /\ NonQuotaIsTerminal

\* C12 amended: a run over a non-empty list that fails after only quota
\* failures leaves every secret of the list marked exhausted when at most
\* maxAttempts of them were available at its start; with more available it
\* fails with 'Maximum retry attempts reached' after marking exactly the first
\* maxAttempts available secrets and leaves the others unmarked. Every
\* non-quota error is the unit's terminal failure.
C12_QuotaSurfacesWithinBudget ==
  /\ \A u \in Units : (QuotaRun(u) /\ RunFailed(u)) =>
       LET A == Len(Available0(u))
       IN IF A <= MAX_RETRY_ATTEMPTS
          THEN \A i \in 1..Len(allTokens[u]) :
                 allTokens[u][i] \in exhausted[provider[u]]
          ELSE /\ nodeData[u].error = MaxAttemptsMsg
               /\ \A i \in 1..A :
                    Available0(u)[i] \in exhausted[provider[u]]
                      <=> i <= MAX_RETRY_ATTEMPTS
  /\ NonQuotaIsTerminal

C12_Witness ==
  \E u \in Units :
    /\ QuotaRun(u)
    /\ RunFailed(u)
    /\ Len(allTokens[u]) = MAX_RETRY_ATTEMPTS + 1
    /\ exh0[u] = {}
    /\ allTokens[u][MAX_RETRY_ATTEMPTS + 1] \notin exhausted[provider[u]]
    /\ attempts[u] = MAX_RETRY_ATTEMPTS


\* C13: a unit whose generation succeeded ends Succeeded with the image
\* stored, whether or not the history append failed: a node whose last call
\* returned an image holds it and took the generated transition, and the home
\* page does not fail once generateImage returned an image.
C13_AppendNeverFailsUnit ==
  /\ \A u \in Units :
       (pc[u] = "done" /\ calls[u] # <<>> /\ calls[u][Len(calls[u])].class = "ok") =>
         /\ terminals[u] = <<"generated">>
         /\ nodeData[u].imageUrl = lastResult[u].url
         /\ nodeData[u].error = ""
  /\ (home.pc = "idle" /\ home.outcome = "failed") => home.detailsUrl = ""


\* Node u is in Failed: its run ended with an error and it is not loading.
Failed(u) == pc[u] = "done" /\ nodeData[u].error # "" /\ ~nodeData[u].isLoading

\* C14: a step that leaves node u in Failed sends no upstream call; and once
\* the caller has set a failed node loading again, the generation effect
\* finds the single-flight guard cleared and starts a new run.
C14_RestartStartsNewRun ==
  [][\A u \in Units :
       /\ (Failed(u) /\ Failed(u)') => (calls'[u] = calls[u] /\ pc'[u] = "done")
       /\ ( /\ pc[u] = "done"
            /\ hasHydrated
            /\ nodeData[u].isLoading
            /\ nodeData[u].imageUrl = ""
            /\ triggers'[u] = triggers[u] + 1 )
          => /\ runsStarted'[u] = runsStarted[u] + 1
             /\ pc'[u] = "load"]_vars


\* C15: once the appends of all tabs have returned, the ledger holds every
\* entry they appended that has not expired (the appends are too few to reach
\* the size cap).
C15_NoLostAppend ==
  (\A w \in Tabs : tabs[w].pc = "idle") =>
    \A w \in Tabs : \A e \in tabs[w].done :
      e.expiresAt > now => e.id \in Ids(safeParseArray(storage))


\* The secrets whose call was answered with a quota error in a run for
\* provider p.
QuotaFailed(p) ==
  UNION { {calls[u][k].token :
             k \in {i \in 1..Len(calls[u]) : /\ calls[u][i].class = "quota"
                                             /\ calls[u][i].token # NoToken}} :
          u \in {v \in Units : provider[v] = p} }

AllRunsEnded == \A u \in Units : pc[u] \in {"idle", "done"}

\* C16: however the runs of a provider interleave, its exhausted set is at
\* every moment, and so once all runs have ended, exactly the set of the
\* secrets that quota-failed in any of the runs: no mark is lost, and marking
\* a secret twice leaves it marked once.
C16_MarksAreUnion ==
  \A p \in Providers : exhausted[p] = QuotaFailed(p)

C16_Witness ==
  /\ AllRunsEnded
  /\ provider[1] = provider[2]
  /\ exh0[1] = {} /\ exh0[2] = {}
  /\ Len(calls[1]) = 2 /\ Len(calls[2]) = 2
  /\ calls[1][1] = [token |-> 1, class |-> "quota"]
  /\ calls[2][1] = [token |-> 1, class |-> "quota"]
  /\ calls[1][2] = [token |-> 2, class |-> "quota"]
  /\ calls[2][2] = [token |-> 2, class |-> "quota"]
  /\ exhausted[provider[1]] = {1, 2}

\* Node u sends a new call with a secret in this step.
StartsSecretCall(u) ==
  /\ pc'[u] = "call"
  /\ token'[u] # NoToken
  /\ Len(calls'[u]) = Len(calls[u]) + 1

C18_PoolsIndependent ==
  [][ /\ \A p \in Providers : exhausted'[p] # exhausted[p] =>
           /\ \E u \in Units : /\ pc[u] = "call"
                               /\ provider[u] = p
                               /\ exhausted'[p] = exhausted[p] \cup {token[u]}
           /\ \A q \in Providers \ {p} : exhausted'[q] = exhausted[q]
      /\ \A u \in Units : StartsSecretCall(u) =>
           LET free == SelectSeq(allTokens'[u],
                                 LAMBDA t : t \notin exhausted'[provider'[u]])
           IN free # <<>> /\ token'[u] = free[1] ]_vars

C18_Witness ==
  \E u \in Units, p \in Providers :
    /\ provider[u] # p
    /\ 1 \in exhausted[p]
    /\ 1 \notin exhausted[provider[u]]
    /\ pc[u] = "call"
    /\ allTokens[u] = <<1, 2>>
    /\ token[u] = 1


\* The upstream requests of node u, and of the home page, awaiting an answer.
NodeInFlight(u) ==
  Cardinality({k \in 1..Len(calls[u]) : calls[u][k].class = "pending"})
HomeInFlight ==
  Cardinality({i \in {1, 2} : home[PcOf(i)] \in {"gen", "upscale"}})

\* C19: in every reachable state a unit has at most one upstream request in
\* flight: a flow node's pending call is the last of its calls and its run is
\* waiting for it, and the home page awaits at most one generate or upscale
\* request.
C19_OneAttemptInFlight ==
  /\ \A u \in Units :
       /\ NodeInFlight(u) <= 1
       /\ \A k \in 1..Len(calls[u]) :
            calls[u][k].class = "pending" => (k = Len(calls[u]) /\ pc[u] = "call")
  /\ HomeInFlight <= 1


\* C20: while the stored value is corrupt or no array, a list and a raw read
\* return the empty sequence, and an append leaves a ledger that holds the
\* new entry and nothing else.
C20_CorruptDegradesToEmpty ==
  [][ (storage \in CorruptValues) =>
        /\ (ledger' # ledger /\ ledger'.op \in {"list", "raw"})
             => ledger'.result = <<>>
        /\ (nextId' = nextId + 1)
             => ( /\ storage'.kind = "array"
                  /\ storage'.items = <<NewEntry(nextId, now, "http://image",
                                                 storage'.items[1].source)>>
                  /\ storage'.items = getHistory(storage', now) ) ]_vars

C20_Witness ==
  /\ ledger.op = "append"
  /\ nextId = 3
  /\ storage.kind = "array"
  /\ Len(storage.items) = 1
  /\ storage.items[1].id = 2


\* C21: deleteHistoryItem(id) leaves the stored entries other than id, expired
\* or not, in their order and none with that id; deleting an id that is not
\* stored leaves the entries as they were, and deleting the same id once more
\* changes nothing.
C21_RemoveIdempotent ==
  [][ (ledger'.op = "delete" /\ now' = now) =>
        LET id == ledger'.id
            old == getAllHistoryIncludingExpired(storage)
            new == getAllHistoryIncludingExpired(storage')
        IN /\ new = SelectSeq(old, LAMBDA i : i.id # id)
           /\ id \notin Ids(new)
           /\ Ids(new) = Ids(old) \ {id}
           /\ id \notin Ids(old) => new = old
           /\ deleteHistoryItem(storage', id) = storage' ]_vars

C21_Witness ==
  /\ ledger.op = "delete"
  /\ ledger.id = 1
  /\ nextId = 4
  /\ now >= HISTORY_TTL_MS
  /\ Len(safeParseArray(storage)) = 2
  /\ safeParseArray(storage)[1].id = 3
  /\ safeParseArray(storage)[2].id = 2
  /\ safeParseArray(storage)[2].expiresAt <= now
  /\ safeParseArray(storage)[1].expiresAt > now


\* The error texts the upstream puts in its response bodies.
UpstreamTexts == {r.error : r \in Responses} \ {""}

\* The reasons the client words itself.
FixedReasons ==
  { "No API Token", AllExhaustedMsg, MaxAttemptsMsg, "Empty response from server",
    "Invalid response", "Failed to generate", "No image details returned",
    "No image returned", "Unknown error" }

\* C22: the error stored on a failed flow node, and the errors the home page
\* shows for a failed run, are reasons of a fixed set worded by the client,
\* never the text the upstream sent.
C22_StableReasons ==
  /\ \A u \in Units : RunFailed(u) =>
       /\ nodeData[u].error \in FixedReasons
       /\ nodeData[u].error \notin UpstreamTexts
  /\ home.outcome = "failed" => home.toasts \cap UpstreamTexts = {}


\* C23: after every step of the ledger each stored entry has
\* expiresAt = timestamp + HISTORY_TTL_MS, and an entry that was stored before
\* the step and still is has the timestamp and the expiry it had.
C23_ExpiryFixedAtCreation ==
  [][ LET old == getAllHistoryIncludingExpired(storage)
          new == getAllHistoryIncludingExpired(storage')
      IN \A j \in 1..Len(new) :
           /\ new[j].expiresAt = new[j].timestamp + HISTORY_TTL_MS
           /\ \A i \in 1..Len(old) : old[i].id = new[j].id =>
                /\ old[i].timestamp = new[j].timestamp
                /\ old[i].expiresAt = new[j].expiresAt ]_vars

C23_Witness ==
  /\ ledger.op = "list"
  /\ Len(ledger.result) = 2
  /\ getAllHistoryIncludingExpired(storage) = ledger.result
  /\ ledger.result[1].timestamp > ledger.result[2].timestamp
  /\ now > ledger.result[1].timestamp
  /\ nextId = 4


\* The run of node u, given a non-empty list, asked the pool for a secret and
\* was told there is none: every secret of the list is marked, every call it
\* made with a secret quota-failed, and the attempts are not used up.
NoneAvailable(u) ==
  /\ pc[u] \in {"call", "done"}
  /\ Len(allTokens[u]) > 0
  /\ attempts[u] < MAX_RETRY_ATTEMPTS
  /\ \A i \in 1..Len(allTokens[u]) : allTokens[u][i] \in exhausted[provider[u]]
  /\ \A k \in 1..Len(SecretCalls(u)) : SecretCalls(u)[k].class = "quota"

\* C24: when the pool has no available secret for a non-empty list, a run
\* without requiresAuth makes exactly one anonymous call, its last, and ends
\* with that call's result or error, a quota error included; a run with
\* requiresAuth fails with 'All API tokens exhausted' and makes no call.
C24_NoneAvailable ==
  \A u \in Units : NoneAvailable(u) =>
    IF requiresAuth[u]
    THEN /\ pc[u] = "done"
         /\ AnonCalls(u) = <<>>
         /\ terminals[u] = <<"error">>
         /\ nodeData[u].error = AllExhaustedMsg
    ELSE /\ Len(AnonCalls(u)) = 1
         /\ calls[u][Len(calls[u])].token = NoToken
         /\ pc[u] = "done" =>
              /\ calls[u][Len(calls[u])].class # "pending"
              /\ IF lastResult[u].ok
                 THEN /\ terminals[u] = <<"generated">>
                      /\ nodeData[u].imageUrl = lastResult[u].url
                 ELSE /\ terminals[u] = <<"error">>
                      /\ nodeData[u].error = lastResult[u].message
              /\ exhausted[provider[u]] =
                   exh0[u] \cup {SecretCalls(u)[k].token : k \in 1..Len(SecretCalls(u))}

C24_Witness ==
  \E u \in Units :
    /\ NoneAvailable(u)
    /\ pc[u] = "done"
    /\ ~requiresAuth[u]
    /\ allTokens[u] = <<2, 1>>
    /\ exh0[u] = {2}
    /\ Len(calls[u]) = 2
    /\ calls[u][2] = [token |-> NoToken, class |-> "quota"]
    /\ nodeData[u].error \in QuotaMessages


\* C25: a call that returned an image is the last call of its run: the run
\* has ended with that image stored on the node, the secret of the call is not
\* marked exhausted, and the secrets marked since the run began are exactly
\* those of the calls that quota-failed before it.
C25_FirstSuccessEndsRun ==
  \A u \in Units : \A k \in 1..Len(calls[u]) :
    calls[u][k].class = "ok" =>
      /\ k = Len(calls[u])
      /\ pc[u] = "done"
      /\ terminals[u] = <<"generated">>
      /\ nodeData[u].imageUrl = lastResult[u].url
      /\ nodeData[u].error = ""
      /\ calls[u][k].token \notin exhausted[provider[u]]
      /\ \A j \in 1..(k - 1) : calls[u][j].class = "quota"
      /\ exhausted[provider[u]] =
           exh0[u] \cup {calls[u][j].token : j \in 1..(k - 1)}

C25_Witness ==
  \E u \in Units :
    /\ pc[u] = "done"
    /\ allTokens[u] = <<1, 2, 3>>
    /\ exh0[u] = {}
    /\ Len(calls[u]) = 2
    /\ calls[u][1] = [token |-> 1, class |-> "quota"]
    /\ calls[u][2] = [token |-> 2, class |-> "ok"]
    /\ exhausted[provider[u]] = {1}
    /\ nodeData[u].imageUrl # ""


\* C26: a call answered with a non-quota error (auth, transient, fatal, an
\* empty or a non-JSON body) is the last call of its run, the run has failed
\* with that call's error, and the pool is as the quota failures before it
\* left it: the secret of the failed call is not marked.
C26_NonQuotaLeavesPool ==
  \A u \in Units : \A k \in 1..Len(calls[u]) :
    calls[u][k].class \in {"auth", "transient", "fatal"} =>
      /\ k = Len(calls[u])
      /\ RunFailed(u)
      /\ nodeData[u].error = lastResult[u].message
      /\ nodeData[u].imageUrl = ""
      /\ calls[u][k].token \notin exhausted[provider[u]]
      /\ exhausted[provider[u]] =
           exh0[u] \cup {calls[u][j].token : j \in 1..(k - 1)}

C26_Witness ==
  \E u \in Units :
    /\ RunFailed(u)
    /\ allTokens[u] = <<1, 2, 3>>
    /\ exh0[u] = {}
    /\ Len(calls[u]) = 2
    /\ calls[u][1] = [token |-> 1, class |-> "quota"]
    /\ calls[u][2] = [token |-> 2, class |-> "transient"]
    /\ nodeData[u].error = "Empty response from server"
    /\ exhausted[provider[u]] = {1}


\* C27: a run makes at most MAX_RETRY_ATTEMPTS calls with a secret and at
\* most one anonymous call, which is its last; once the last of
\* MAX_RETRY_ATTEMPTS calls with a secret, or the anonymous call, is answered
\* the run has ended, whatever other runs mark in the meantime.
C27_BoundedRetries ==
  \A u \in Units :
    /\ Len(SecretCalls(u)) <= MAX_RETRY_ATTEMPTS
    /\ attempts[u] <= MAX_RETRY_ATTEMPTS
    /\ Len(AnonCalls(u)) <= 1
    /\ \A k \in 1..Len(calls[u]) : calls[u][k].token = NoToken => k = Len(calls[u])
    /\ ( /\ calls[u] # <<>>
         /\ calls[u][Len(calls[u])].class # "pending"
         /\ \/ Len(SecretCalls(u)) = MAX_RETRY_ATTEMPTS
            \/ AnonCalls(u) # <<>> )
       => pc[u] = "done" /\ Len(terminals[u]) = 1

C27_Witness ==
  \E u \in Units :
    /\ pc[u] = "done"
    /\ Len(allTokens[u]) = MAX_RETRY_ATTEMPTS + 1
    /\ Len(SecretCalls(u)) = MAX_RETRY_ATTEMPTS
    /\ nodeData[u].error = MaxAttemptsMsg
    /\ exh0[u] = {}
    /\ exhausted[provider[u]] \ {calls[u][k].token : k \in 1..Len(calls[u])} # {}


\* C28: while the store is not hydrated no node has started a run, set its
\* guard or made a call; and the first run of the generation effect of a
\* loading node after the hydration starts the run, however often the effect
\* ran before.
C28_IdleUntilHydrated ==
  [][ /\ ~hasHydrated' =>
           \A u \in Units : /\ pc'[u] = "idle"
                            /\ ~generatingRef'[u]
                            /\ calls'[u] = <<>>
                            /\ runsStarted'[u] = 0
      /\ \A u \in Units :
           ( /\ hasHydrated
             /\ triggers'[u] = triggers[u] + 1
             /\ runsStarted[u] = 0
             /\ nodeData[u].isLoading
             /\ nodeData[u].imageUrl = "" )
           => /\ runsStarted'[u] = 1
              /\ generatingRef'[u]
              /\ pc'[u] = "load" ]_vars

C28_Witness ==
  \E u \in Units :
    /\ hasHydrated
    /\ triggers[u] = MaxEffects
    /\ runsStarted[u] = 1
    /\ blocked[u] = 0
    /\ pc[u] = "load"


\* C29: no two calls of a run carry the same secret: every call before the
\* last was made with a secret, quota-failed and left its secret marked, so
\* that it is not selected again.
C29_EachSecretOnce ==
  \A u \in Units : \A k \in 1..Len(calls[u]) :
    /\ \A j \in 1..(k - 1) :
         /\ calls[u][j].token # NoToken
         /\ calls[u][j].token # calls[u][k].token
         /\ calls[u][j].class = "quota"
         /\ calls[u][j].token \in exhausted[provider[u]]
    /\ calls[u][k].token # NoToken =>
         \E i \in 1..Len(allTokens[u]) : allTokens[u][i] = calls[u][k].token

C29_Witness ==
  \E u \in Units :
    /\ pc[u] = "call"
    /\ allTokens[u] = <<3, 2, 1>>
    /\ exh0[u] = {}
    /\ Len(calls[u]) = 3
    /\ token[u] = 1
    /\ exhausted[provider[u]] = {2, 3}


\* C30: a node starts at most one run; while the run is under way neither
\* terminal update has been invoked, and once it has ended exactly one has:
\* updateImageGenerated, and the node holds the image and no error, or
\* updateImageError, and the node holds the error and no image.
C30_OneTerminalTransition ==
  \A u \in Units :
    /\ runsStarted[u] <= 1
    /\ Len(terminals[u]) <= runsStarted[u]
    /\ pc[u] \in {"load", "call"} => terminals[u] = <<>>
    /\ pc[u] = "done" =>
         /\ Len(terminals[u]) = 1
         /\ \A k \in 1..Len(calls[u]) : calls[u][k].class # "pending"
         /\ ~nodeData[u].isLoading
         /\ IF terminals[u][1] = "generated"
            THEN nodeData[u].imageUrl # "" /\ nodeData[u].error = ""
            ELSE nodeData[u].imageUrl = "" /\ nodeData[u].error # ""

C30_Witness ==
  \E u \in Units :
    /\ pc[u] = "done"
    /\ calls[u] # <<>>
    /\ calls[u][Len(calls[u])].class = "ok"
    /\ terminals[u] = <<"error">>
    /\ nodeData[u].error = StorageErrorMsg
    /\ triggers[u] >= 2


\* A flow node is Pending once the store has hydrated and holds it loading
\* with no image; the home page is Pending while its loading flag is set.
PendingNode(u) ==
  /\ route = "/flow"
  /\ hasHydrated
  /\ nodeData[u].isLoading
  /\ nodeData[u].imageUrl = ""

\* C31: when every upstream call is answered, a flow node that is Pending
\* eventually leaves it through updateImageGenerated or updateImageError, and
\* the home page eventually clears its loading flag.
C31_PendingEnds ==
  /\ \A u \in Units : PendingNode(u) ~> ~nodeData[u].isLoading
  /\ (route = "/" /\ home.loading) ~> ~home.loading

\* The first run of a node and every run of the home page do end.
C31_FirstRunEnds ==
  /\ \A u \in Units : (PendingNode(u) /\ terminals[u] = <<>>) ~> (terminals[u] # <<>>)
  /\ (route = "/" /\ home.loading) ~> ~home.loading

====
